---- MODULE Spec2Model ----
(***************************************************************************)
(* Coffee Club Wheel (src/src/App.tsx): the App component as a state       *)
(* machine.  The state is the component's useState cells, the queue of     *)
(* setTimeout callbacks scheduled by spinWheel and the Date.now() clock.   *)
(* One action per UI event or timer callback.                              *)
(*                                                                         *)
(* Numbers.  Angles are fixed-point numbers, in units of 1/Scale degree;   *)
(* weights are in tenths.  A JavaScript division whose result is not       *)
(* representable is rounded to the nearest representable number: the       *)
(* quotient weight / totalWeight is rounded to the nearest multiple of     *)
(* 1/Scale (RoundDiv).  A number holds MantissaBits significant bits: a   *)
(* sum of 2^MantissaBits quanta or more is rounded to that many bits, to   *)
(* the nearest, ties to even (Fl).  Every angle of a layout is below that  *)
(* magnitude, so sums, differences and remainders of such angles and their *)
(* products by an integer are exact; the cumulative rotation is not.       *)
(*                                                                         *)
(* Strings are sequences of one-character strings.                         *)
(***************************************************************************)
EXTENDS Integers, Sequences, FiniteSets, TLC

\* ------------------------------------------------------------------ bounds

\* angle quanta per degree (precision of the number representation)
Scale == 100
\* largest win count of the entrant found in localStorage at mount
MaxWins == 5
\* full turns of cumulative rotation after which the model accepts no further spin
MaxTurns == 9
\* last Date.now() reading at which the model lets addName create an entrant
MaxClock == 3
\* significant bits of a number (precision of the number representation)
MantissaBits == 17

\* ------------------------------------------------------- program constants

\* baseWeight = 1, in tenths
BaseWeight == 10
\* penaltyPerWin = 0.2, in tenths
PenaltyPerWin == 2
\* the 0.1 of Math.max(0.1, ...), in tenths
MinWeight == 1
\* degrees of a full turn
Degrees == 360
\* "5 full spins minimum"
MinSpins == 5

FullTurn == Degrees * Scale
BaseRotation == Degrees * MinSpins * Scale

\* ----------------------------------------------------------------- strings

\* winner: string | null.  null and "" both render no winner banner.
Null == << >>

IsSpace(c) == c = " "

toLowerCaseChar(c) ==
    CASE c = "A" -> "a"
      [] c = "B" -> "b"
      [] c = "C" -> "c"
      [] OTHER -> c

\* String.prototype.toLowerCase
toLowerCase(s) == [i \in 1..Len(s) |-> toLowerCaseChar(s[i])]

RECURSIVE trimStart(_)
trimStart(s) ==
    IF s # << >> /\ IsSpace(Head(s)) THEN trimStart(Tail(s)) ELSE s

RECURSIVE trimEnd(_)
trimEnd(s) ==
    IF s # << >> /\ IsSpace(s[Len(s)])
    THEN trimEnd(SubSeq(s, 1, Len(s) - 1))
    ELSE s

\* String.prototype.trim
trim(s) == trimEnd(trimStart(s))

\* ----------------------------------------------------------------- numbers

Max(a, b) == IF a >= b THEN a ELSE b

\* a / b rounded to the nearest integer (a >= 0, b > 0)
RoundDiv(a, b) == (2 * a + b) \div (2 * b)

RECURSIVE UlpFrom(_, _)
\* the least power of two u, from u on, with x < 2^MantissaBits * u
UlpFrom(x, u) == IF x < (2 ^ MantissaBits) * u THEN u ELSE UlpFrom(x, 2 * u)

\* the spacing of the representable numbers at magnitude x (x >= 0)
Ulp(x) == UlpFrom(x, 1)

\* x rounded to the nearest representable number, ties to even (x >= 0)
Fl(x) ==
    LET u == Ulp(x)
        q == x \div u
        r == x % u
    IN IF 2 * r < u THEN q * u
       ELSE IF 2 * r > u THEN (q + 1) * u
       ELSE IF q % 2 = 0 THEN q * u
       ELSE (q + 1) * u

RECURSIVE SumWeights(_)
\* weightedPeople.reduce((sum, person) => sum + person.weight, 0)
SumWeights(ws) ==
    IF ws = << >> THEN 0 ELSE Head(ws).weight + SumWeights(Tail(ws))

\* ------------------------------------------------------------------- view

VARIABLES
    names,       \* useState<Person[]>: sequence of [id, name, wins]
    newName,     \* useState(""): text of the input box
    isSpinning,  \* useState(false)
    winner,      \* useState<string | null>(null)
    rotation,    \* useState(0): cumulative rotation, in quanta
    timers,      \* pending setTimeout callbacks, each the closure of its spinWheel call
    clock        \* the Date.now() reading of the next addName call

vars == <<names, newName, isSpinning, winner, rotation, timers, clock>>

\* ---------------------------------------------------------- weight, layout

\* faulty variant of Weight: the Math.max(0.1, ...) floor is missing
WeightNoFloor(wins) == BaseWeight - wins * PenaltyPerWin

\* Math.max(0.1, baseWeight - person.wins * penaltyPerWin)
Weight(wins) == Max(MinWeight, BaseWeight - wins * PenaltyPerWin)

\* calculateWeightedSegments: each person with its weight
calculateWeightedSegments(ns) ==
    [i \in 1..Len(ns) |->
        [id |-> ns[i].id, name |-> ns[i].name, wins |-> ns[i].wins,
         weight |-> Weight(ns[i].wins)]]

\* faulty variant of SegmentAngle: the segment is sized from baseWeight, not from the
\* person's weight
SegmentAngleUnweighted(weight, totalWeight) ==
    RoundDiv(BaseWeight * Scale, totalWeight) * Degrees

\* (person.weight / totalWeight) * 360
SegmentAngle(weight, totalWeight) ==
    RoundDiv(weight * Scale, totalWeight) * Degrees

RECURSIVE AngleBefore(_, _, _)
\* currentAngle when the map callback reaches index i
AngleBefore(ws, totalWeight, i) ==
    IF i <= 1 THEN 0
    ELSE AngleBefore(ws, totalWeight, i - 1)
         + SegmentAngle(ws[i - 1].weight, totalWeight)

\* getSegmentAngles
getSegmentAngles(ns) ==
    LET weightedPeople == calculateWeightedSegments(ns)
        totalWeight == SumWeights(weightedPeople)
    IN [i \in 1..Len(ns) |->
          LET segmentAngle == SegmentAngle(weightedPeople[i].weight, totalWeight)
              startAngle == AngleBefore(weightedPeople, totalWeight, i)
          IN [id |-> weightedPeople[i].id,
              name |-> weightedPeople[i].name,
              wins |-> weightedPeople[i].wins,
              weight |-> weightedPeople[i].weight,
              startAngle |-> startAngle,
              endAngle |-> startAngle + segmentAngle,
              segmentAngle |-> segmentAngle]]

\* ------------------------------------------------------------------- spin

\* segments[0] of an empty array
Undefined == [id |-> -1, name |-> Null, wins |-> 0, weight |-> 0,
              startAngle |-> 0, endAngle |-> 0, segmentAngle |-> 0]

\* segmentTopAngle >= segment.startAngle && segmentTopAngle < segment.endAngle
Contains(segment, angle) ==
    angle >= segment.startAngle /\ angle < segment.endAngle

\* the indices of the segments the loop's test accepts
Matching(segments, angle) ==
    {i \in 1..Len(segments) : Contains(segments[i], angle)}

\* let selectedWinner = segments[0]
DefaultWinner(segments) ==
    IF segments = << >> THEN Undefined ELSE segments[1]

\* let selectedWinner = segments[0]; for (...) { if (...) { selectedWinner = segment; break; } }
SelectWinner(segments, angle) ==
    LET hits == Matching(segments, angle)
    IN IF hits = {} THEN DefaultWinner(segments)
       ELSE segments[CHOOSE i \in hits : \A j \in hits : i <= j]

\* (360 - finalRotation) % 360
SegmentTopAngle(finalRotation) == (FullTurn - finalRotation) % FullTurn

\* faulty variant of IsEmptyRoster: the emptiness test never fires
IsEmptyRosterNever(ns) == Len(ns) < 0

\* names.length === 0
IsEmptyRoster(ns) == Len(ns) = 0

\* Math.random() * 360: the sampled angles
RandomAngles == {0, Scale, 200 * Scale, FullTurn - 1}

\* the closure of one spinWheel call, kept alive by its setTimeout callback
Closure(ns, segmentTopAngle, selectedWinner) ==
    [names |-> ns, segmentTopAngle |-> segmentTopAngle,
     selectedWinner |-> selectedWinner]

\* baseRotation + randomAngle
TotalRotation(randomAngle) == Fl(BaseRotation + randomAngle)

\* faulty variant of NewRotation: setRotation(totalRotation)
NewRotationReset(prev, totalRotation) == totalRotation

\* setRotation((prev) => prev + totalRotation)
NewRotation(prev, totalRotation) == Fl(prev + totalRotation)

\* (rotation + totalRotation) % 360
FinalRotation(current, totalRotation) ==
    Fl(current + totalRotation) % FullTurn

\* spinWheel, with Math.random() * 360 = randomAngle
spinWheel(randomAngle) ==
    IF IsEmptyRoster(names)
    THEN UNCHANGED vars
    ELSE LET totalRotation == TotalRotation(randomAngle)
             finalRotation == FinalRotation(rotation, totalRotation)
             segments == getSegmentAngles(names)
             segmentTopAngle == SegmentTopAngle(finalRotation)
             selectedWinner == SelectWinner(segments, segmentTopAngle)
         IN /\ isSpinning' = TRUE
            /\ winner' = Null
            /\ rotation' = NewRotation(rotation, totalRotation)
            /\ timers' = Append(timers,
                                Closure(names, segmentTopAngle, selectedWinner))
            /\ UNCHANGED <<names, newName, clock>>

\* prevNames.map(person => person.id === selectedWinner.id ? {...person, wins: person.wins + 1} : person)
IncrementWins(prevNames, id) ==
    [i \in 1..Len(prevNames) |->
        IF prevNames[i].id = id
        THEN [prevNames[i] EXCEPT !.wins = @ + 1]
        ELSE prevNames[i]]

\* the setTimeout callback, 3000 ms after its spinWheel call
Commit ==
    /\ timers # << >>
    /\ LET selectedWinner == Head(timers).selectedWinner
       IN /\ winner' = selectedWinner.name
          /\ names' = IncrementWins(names, selectedWinner.id)
    /\ isSpinning' = FALSE
    /\ timers' = Tail(timers)
    /\ UNCHANGED <<newName, rotation, clock>>

\* ---------------------------------------------------------------- roster

\* names.some(person => person.name.toLowerCase() === newName.toLowerCase())
NameTaken(ns, text) ==
    \E i \in 1..Len(ns) : toLowerCase(ns[i].name) = toLowerCase(text)

\* the condition of addName's if
AddAccepted(ns, text) == trim(text) # << >> /\ ~NameTaken(ns, text)

\* addName
addName ==
    IF AddAccepted(names, newName)
    THEN /\ names' = Append(names, [id |-> clock, name |-> trim(newName), wins |-> 0])
         /\ newName' = << >>
         /\ clock' = clock + 1
         /\ UNCHANGED <<isSpinning, winner, rotation, timers>>
    ELSE UNCHANGED vars

\* names.filter(person => person.id !== id)
removeName(id) ==
    names' = SelectSeq(names, LAMBDA person : person.id # id)

\* prevNames.map(p => p.id === person.id ? {...p, wins: Math.max(0, p.wins - 1)} : p)
DecreaseWins(prevNames, id) ==
    [i \in 1..Len(prevNames) |->
        IF prevNames[i].id = id
        THEN [prevNames[i] EXCEPT !.wins = Max(0, @ - 1)]
        ELSE prevNames[i]]

\* prevNames.map(person => ({...person, wins: 0}))
ResetWins(prevNames) ==
    [i \in 1..Len(prevNames) |-> [prevNames[i] EXCEPT !.wins = 0]]

\* ------------------------------------------------------------- controls
\* A disabled control dispatches no event, so its handler does not run: the
\* action of a control is enabled only while the control is.

\* name-input: disabled={isSpinning}
InputDisabled == isSpinning

\* add-button: disabled={isSpinning || !newName.trim()}
AddDisabled == isSpinning \/ trim(newName) = << >>

\* decrease-wins-button: disabled={isSpinning || person.wins === 0}
DecreaseDisabled(person) == isSpinning \/ person.wins = 0

\* faulty variant of RemoveDisabled: the remove button stays enabled during a spin
RemoveNeverDisabled == FALSE

\* remove-button: disabled={isSpinning}
RemoveDisabled == isSpinning

\* reset-wins-button: disabled={isSpinning}
ResetDisabled == isSpinning

\* faulty variant of SpinDisabled: disabled={names.length === 0}
SpinDisabledWhenEmpty == IsEmptyRoster(names)

\* spin-button: disabled={names.length === 0 || isSpinning}
SpinDisabled == IsEmptyRoster(names) \/ isSpinning

\* the texts the user types
InputTexts == {<<"a">>, <<" ", "A">>, <<"z">>}

\* onChange of the name input: setNewName(e.target.value)
TypeName ==
    /\ ~InputDisabled
    /\ \E text \in InputTexts : newName' = text
    /\ UNCHANGED <<names, isSpinning, winner, rotation, timers, clock>>

\* the model's cap on the entrants created in a session
CanAdd == clock <= MaxClock

\* onKeyDown of the name input with e.key === "Enter"
PressEnter ==
    /\ CanAdd
    /\ ~InputDisabled
    /\ addName

\* onClick of the add button
ClickAdd ==
    /\ CanAdd
    /\ ~AddDisabled
    /\ addName

\* onClick of a remove button
ClickRemove ==
    /\ ~RemoveDisabled
    /\ \E i \in 1..Len(names) : removeName(names[i].id)
    /\ UNCHANGED <<newName, isSpinning, winner, rotation, timers, clock>>

\* onClick of a decrease-wins button
ClickDecrease ==
    /\ \E i \in 1..Len(names) :
         /\ ~DecreaseDisabled(names[i])
         /\ names' = DecreaseWins(names, names[i].id)
    /\ UNCHANGED <<newName, isSpinning, winner, rotation, timers, clock>>

\* onClick of the reset button
ClickReset ==
    /\ ~ResetDisabled
    /\ names' = ResetWins(names)
    /\ UNCHANGED <<newName, isSpinning, winner, rotation, timers, clock>>

\* the model's cap on the cumulative rotation
CanSpin == rotation < MaxTurns * FullTurn

\* onClick of the spin button
ClickSpin ==
    /\ CanSpin
    /\ ~SpinDisabled
    /\ \E randomAngle \in RandomAngles : spinWheel(randomAngle)

\* ------------------------------------------------------------ behaviour

\* localStorage.getItem("coffee-wheel-names") as an earlier session left it:
\* nothing, or one entrant with any win count
SavedRosters ==
    {<< >>} \cup {<<[id |-> 1, name |-> <<"b">>, wins |-> w]>> : w \in 0..MaxWins}

\* the state after mount: the useState initial values, names as loaded
Init ==
    /\ \E saved \in SavedRosters :
         /\ names = saved
         /\ clock = Len(saved) + 1
    /\ newName = << >>
    /\ isSpinning = FALSE
    /\ winner = Null
    /\ rotation = 0
    /\ timers = << >>

Next ==
    \/ TypeName
    \/ PressEnter
    \/ ClickAdd
    \/ ClickRemove
    \/ ClickDecrease
    \/ ClickReset
    \/ ClickSpin
    \/ Commit

Spec == Init /\ [][Next]_vars

\* a first launch: localStorage holds no roster
InitFresh == Init /\ names = << >>

SpecFresh == InitFresh /\ [][Next]_vars

\* the timer of every scheduled callback fires
SpecLive == Spec /\ WF_vars(Commit)


\* ================================================================ claims

Abs(x) == IF x < 0 THEN -x ELSE x

\* the layout the wheel renders from the current roster
Layout == getSegmentAngles(names)

\* the angle of the wheel frame under the fixed pointer at cumulative rotation r
PointerAngle(r) == (FullTurn - (r % FullTurn)) % FullTurn

\* segs holds one segment per entrant of ns, in roster order, the first at 0,
\* each starting where the previous one ends
Contiguous(ns, segs) ==
    /\ Len(segs) = Len(ns)
    /\ \A i \in 1..Len(ns) :
         /\ segs[i].id = ns[i].id
         /\ segs[i].name = ns[i].name
         /\ segs[i].endAngle = segs[i].startAngle + segs[i].segmentAngle
         /\ segs[i].startAngle = IF i = 1 THEN 0 ELSE segs[i - 1].endAngle

\* ---- C1 ----------------------------------------------------------------

C7_RotationGrows ==
    /\ rotation = 0
    /\ [][/\ rotation' # rotation => (~isSpinning /\ isSpinning')
          /\ (~isSpinning /\ isSpinning') =>
                /\ rotation' - rotation >= MinSpins * FullTurn
                /\ rotation' - rotation < (MinSpins + 1) * FullTurn
          /\ rotation' >= rotation]_vars

\* C7 amended: the cumulative rotation starts at 0; only the start of a spin
\* changes it, and every spin that starts adds at least 5 * 360 and at most
\* 6 * 360 degrees to it, up to the rounding of the two additions (one
\* spacing of the numbers at the new rotation); it never decreases.
C7_RotationGrowsRounded ==
    /\ rotation = 0
    /\ [][/\ rotation' # rotation => (~isSpinning /\ isSpinning')
          /\ (~isSpinning /\ isSpinning') =>
                /\ rotation' - rotation >= MinSpins * FullTurn - Ulp(rotation')
                /\ rotation' - rotation <= (MinSpins + 1) * FullTurn + Ulp(rotation')
          /\ rotation' >= rotation]_vars

\* a second spin has started on top of the rotation of a first spin that
\* added exactly 6 * 360 degrees
C7_Witness ==
    /\ isSpinning
    /\ rotation >= (MinSpins + 1) * FullTurn + MinSpins * FullTurn
    /\ \E randomAngle \in RandomAngles :
          /\ TotalRotation(randomAngle) = (MinSpins + 1) * FullTurn
          /\ rotation - TotalRotation(randomAngle) >= MinSpins * FullTurn

\* ---- C8 ----------------------------------------------------------------

\* C8: every entrant has wins >= 0 and the weight max(0.1, 1 - 0.2 * wins)
\* (in tenths: max(1, 10 - 2 * wins)), at least 0.1; an entrant with more wins
\* never has the larger weight; every segment has a positive angle.
C8_Weights ==
    LET weighted == calculateWeightedSegments(names)
        segs == Layout
    IN \A i \in 1..Len(names) :
          /\ names[i].wins >= 0
          /\ weighted[i].weight =
                IF names[i].wins >= 5 THEN 1 ELSE 10 - 2 * names[i].wins
          /\ weighted[i].weight >= 1
          /\ \A j \in 1..Len(names) :
                names[i].wins <= names[j].wins
                    => weighted[i].weight >= weighted[j].weight
          /\ segs[i].segmentAngle > 0
          /\ segs[i].endAngle > segs[i].startAngle

\* a roster holding an entrant at the floor weight (wins > 5) beside one with
\* no wins
C8_Witness ==
    \E i, j \in 1..Len(names) :
        /\ names[i].wins > 5
        /\ names[j].wins = 0
        /\ Layout[i].segmentAngle < Layout[j].segmentAngle

\* ---- C2 ----------------------------------------------------------------

\* C2: while a spin is in flight exactly one winner is selected, and it is
\* the entrant of the one segment of the spin-start layout that contains the
\* pointer angle of the rotation the spin applied to the wheel.
C2_WinnerUnderPointer ==
    timers # << >> =>
        LET spin == Head(timers)
            segments == getSegmentAngles(spin.names)
            under == Matching(segments, PointerAngle(rotation))
        IN /\ Len(timers) = 1
           /\ Cardinality(under) = 1
           /\ \A i \in under : spin.selectedWinner.id = segments[i].id

\* ---- C3 ----------------------------------------------------------------

RECURSIVE TotalWins(_)
TotalWins(ns) == IF ns = << >> THEN 0 ELSE Head(ns).wins + TotalWins(Tail(ns))

\* C3: at most one spin is in flight, and isSpinning says whether one is;
\* while one is, no step changes the rotation or schedules another commit,
\* the roster, the pending winner and the displayed winner stay as they are
\* until the commit, and the step that ends the spin adds exactly one win.
C3_SingleSpin ==
    /\ [](Len(timers) <= 1 /\ (isSpinning <=> timers # << >>))
    /\ [][isSpinning =>
            /\ rotation' = rotation
            /\ Len(timers') <= Len(timers)
            /\ isSpinning' => UNCHANGED <<names, timers, winner>>
            /\ ~isSpinning' =>
                  /\ timers' = << >>
                  /\ TotalWins(names') = TotalWins(names) + 1]_vars

\* a second spin is in flight, the first one committed, the spin button
\* disabled
C3_Witness ==
    /\ isSpinning
    /\ Len(timers) = 1
    /\ SpinDisabled
    /\ TotalWins(names) >= 1
    /\ rotation >= 2 * MinSpins * FullTurn

\* ---- C5 ----------------------------------------------------------------

\* ns with the wins of the entrant id raised by one, that entrant being in ns once
WithOneMoreWin(ns, before, id) ==
    /\ Len(ns) = Len(before)
    /\ Cardinality({i \in 1..Len(before) : before[i].id = id}) = 1
    /\ \A i \in 1..Len(before) :
         /\ ns[i].id = before[i].id
         /\ ns[i].name = before[i].name
         /\ ns[i].wins = before[i].wins + (IF before[i].id = id THEN 1 ELSE 0)

\* C5: every spin in flight is eventually committed; until then no step
\* changes the roster or the pending commit; the commit leaves isSpinning
\* false, displays the entrant selected at spin start, and leaves the roster
\* of the spin start with exactly that entrant's wins raised by one.
C5_CommitHappens ==
    /\ isSpinning ~> ~isSpinning
    /\ [][timers # << >> =>
            \/ UNCHANGED <<names, timers, isSpinning>>
            \/ /\ timers' = Tail(timers)
               /\ ~isSpinning'
               /\ winner' = Head(timers).selectedWinner.name
               /\ names = Head(timers).names
               /\ WithOneMoreWin(names', Head(timers).names,
                                 Head(timers).selectedWinner.id)]_vars

\* a committed spin on a roster of two: the displayed winner has a win, the
\* other entrant none
C5_Witness ==
    /\ ~isSpinning
    /\ timers = << >>
    /\ Len(names) = 2
    /\ \E i, j \in 1..2 :
         /\ names[i].name = winner
         /\ names[i].wins = 1
         /\ names[j].wins = 0
         /\ i # j

\* ---- C6 ----------------------------------------------------------------

\* C6: while the roster is empty no step, a click on the spin button
\* included, changes the rotation, isSpinning or the displayed winner or
\* schedules a commit, and the only change to the roster is an added entrant.
C6_EmptyRosterNoSpin ==
    [][names = << >> =>
          /\ UNCHANGED <<rotation, isSpinning, winner, timers>>
          /\ names' # names => (Len(names') = 1 /\ names'[1].wins = 0)]_vars

\* every entrant was removed after a committed spin: the spin button is
\* disabled, the rotation and the winner of that spin still shown
C6_Witness ==
    /\ names = << >>
    /\ clock > 1
    /\ winner # Null
    /\ rotation > 0
    /\ SpinDisabled
    /\ ~isSpinning

\* ---- C9 ----------------------------------------------------------------

\* C9: when no segment of the spin-start layout contains the pointer angle,
\* the selected winner is the last segment.
C9_FallbackIsLast ==
    timers # << >> =>
        LET spin == Head(timers)
            segments == getSegmentAngles(spin.names)
        IN Matching(segments, spin.segmentTopAngle) = {}
              => spin.selectedWinner = segments[Len(segments)]

\* ---- C10 ---------------------------------------------------------------

\* C10: in the state a commit leaves, the displayed winner is the entrant
\* whose segment, in the layout of the roster as it is now, contains the
\* pointer angle of the rotation as it is now.
C10_DisplayedIsUnderPointer ==
    [][(timers # << >> /\ timers' = << >>) =>
          LET segments == getSegmentAngles(names')
          IN \E i \in Matching(segments, PointerAngle(rotation')) :
                segments[i].name = winner']_vars

\* ---- C4 ----------------------------------------------------------------

\* C4: no two entrants of the roster have names that are equal ignoring case.
C4_NamesUnique ==
    \A i, j \in 1..Len(names) :
        i # j => toLowerCase(names[i].name) # toLowerCase(names[j].name)

====
